---- MODULE Spec2Model ----
(***************************************************************************)
(* Model of the two example utilities of the repository:                   *)
(*   - normalize (python/src/example_module.py): min-max scaling of a list *)
(*     of numbers, modelled line by line as a small step machine;          *)
(*   - main (python/automation/example_task.py): writes a timestamp line   *)
(*     into the file named by --output.                                    *)
(* Numbers are modelled exactly: inputs are integers, quotients are        *)
(* rationals <<numerator, denominator>> in lowest terms with a positive    *)
(* denominator, so 0.0 is <<0, 1>>, 0.5 is <<1, 2>> and 1.0 is <<1, 1>>.   *)
(* IEEE-754 rounding and overflow are not part of the model.               *)
(***************************************************************************)
EXTENDS Integers, Sequences, FiniteSets, TLC

VARIABLES values, pc, locals, result, exc,
          argv, fs, fs_before, tpc, args_output, exit_code

nvars == <<values, pc, locals, result, exc>>
tvars == <<argv, fs, fs_before, tpc, args_output, exit_code>>
vars == <<values, pc, locals, result, exc, argv, fs, fs_before, tpc, args_output, exit_code>>

(***************************************************************************)
(* Bounds of the model.                                                    *)
(***************************************************************************)
MaxLen == 4
MaxAbs == 2

\* The input numbers: a small symmetric range plus the values of the tests.
Numbers == (-MaxAbs .. MaxAbs) \cup {3, 5, 10}

Inputs == UNION {[1 .. n -> Numbers] : n \in 0 .. MaxLen}

(***************************************************************************)
(* Exact arithmetic.                                                       *)
(***************************************************************************)
Abs(x) == IF x < 0 THEN -x ELSE x

RECURSIVE GCD(_, _)
GCD(a, b) == IF b = 0 THEN a ELSE GCD(b, a % b)

Zero == <<0, 1>>
One == <<1, 1>>
Half == <<1, 2>>

\* Order and equality of two rationals with positive denominators.
RatLeq(r, s) == r[1] * s[2] <= s[1] * r[2]
RatLt(r, s) == r[1] * s[2] < s[1] * r[2]

\* Variant of TrueDiv: floor division (a // b) in place of true division.
FloorDiv(a, b) ==
    IF b = 0
    THEN [ok |-> FALSE, exc |-> "ZeroDivisionError"]
    ELSE [ok |-> TRUE,
          val |-> <<(IF b < 0 THEN -a ELSE a) \div (IF b < 0 THEN -b ELSE b), 1>>]

\* Python's a / b on numbers: ZeroDivisionError when b is 0, else the quotient.
TrueDiv(a, b) ==
    IF b = 0
    THEN [ok |-> FALSE, exc |-> "ZeroDivisionError"]
    ELSE LET g == GCD(Abs(a), Abs(b))
             s == IF b < 0 THEN -1 ELSE 1
         IN [ok |-> TRUE, val |-> <<(s * a) \div g, Abs(b) \div g>>]

\* Python's builtin min: ValueError on an empty sequence, else the first
\* element, replaced by every later element that is strictly smaller.
RECURSIVE MinFold(_, _, _)
MinFold(s, i, best) ==
    IF i > Len(s) THEN best
    ELSE MinFold(s, i + 1, IF s[i] < best THEN s[i] ELSE best)

PyMin(s) ==
    IF s = <<>>
    THEN [ok |-> FALSE, exc |-> "ValueError"]
    ELSE [ok |-> TRUE, val |-> MinFold(s, 2, s[1])]

\* Python's builtin max, likewise.
RECURSIVE MaxFold(_, _, _)
MaxFold(s, i, best) ==
    IF i > Len(s) THEN best
    ELSE MaxFold(s, i + 1, IF s[i] > best THEN s[i] ELSE best)

PyMax(s) ==
    IF s = <<>>
    THEN [ok |-> FALSE, exc |-> "ValueError"]
    ELSE [ok |-> TRUE, val |-> MaxFold(s, 2, s[1])]

(***************************************************************************)
(* normalize(values)                                                       *)
(***************************************************************************)
InitNormalize ==
    /\ values \in Inputs
    /\ pc = "l17"
    /\ locals = [min_val |-> <<>>, max_val |-> <<>>, span |-> <<>>]
    /\ result = <<>>
    /\ exc = "None"

\* Variant of CheckEmpty: the empty-input guard is missing.
CheckEmptyMissing ==
    /\ pc = "l17"
    /\ pc' = "l19"
    /\ UNCHANGED <<values, locals, result, exc>>

\* if not values: return []
CheckEmpty ==
    /\ pc = "l17"
    /\ IF values = <<>>
       THEN /\ result' = <<>>
            /\ pc' = "returned"
       ELSE /\ pc' = "l19"
            /\ UNCHANGED result
    /\ UNCHANGED <<values, locals, exc>>

\* min_val = min(values)
ComputeMin ==
    /\ pc = "l19"
    /\ LET r == PyMin(values)
       IN IF r.ok
          THEN /\ locals' = [locals EXCEPT !.min_val = <<r.val>>]
               /\ pc' = "l20"
               /\ UNCHANGED exc
          ELSE /\ exc' = r.exc
               /\ pc' = "raised"
               /\ UNCHANGED locals
    /\ UNCHANGED <<values, result>>

\* max_val = max(values)
ComputeMax ==
    /\ pc = "l20"
    /\ LET r == PyMax(values)
       IN IF r.ok
          THEN /\ locals' = [locals EXCEPT !.max_val = <<r.val>>]
               /\ pc' = "l21"
               /\ UNCHANGED exc
          ELSE /\ exc' = r.exc
               /\ pc' = "raised"
               /\ UNCHANGED locals
    /\ UNCHANGED <<values, result>>

\* Variant of ZeroFill: the originals are returned (as floats).
ZeroFillOriginals(vs) == [i \in 1 .. Len(vs) |-> <<vs[i], 1>>]

\* Variant of ZeroFill: a single 0.0 whatever the input's length.
ZeroFillOne(vs) == <<Zero>>

\* Variant of CheckConstant: the all-equal guard is missing.
CheckConstantMissing ==
    /\ pc = "l21"
    /\ pc' = "l23"
    /\ UNCHANGED <<values, locals, result, exc>>

\* [0.0 for _ in values]
ZeroFill(vs) == [i \in 1 .. Len(vs) |-> Zero]

\* if max_val == min_val: return [0.0 for _ in values]
CheckConstant ==
    /\ pc = "l21"
    /\ IF locals.max_val[1] = locals.min_val[1]
       THEN /\ result' = ZeroFill(values)
            /\ pc' = "returned"
       ELSE /\ pc' = "l23"
            /\ UNCHANGED result
    /\ UNCHANGED <<values, locals, exc>>

\* Variant of SpanOf: min_val is not subtracted.
SpanNoMin(max_val, min_val) == max_val

\* Variant of SpanOf: the operands are swapped.
SpanReversed(max_val, min_val) == min_val - max_val

\* max_val - min_val
SpanOf(max_val, min_val) == max_val - min_val

\* span = max_val - min_val
ComputeSpan ==
    /\ pc = "l23"
    /\ locals' = [locals EXCEPT !.span = <<SpanOf(locals.max_val[1], locals.min_val[1])>>]
    /\ pc' = "l24"
    /\ UNCHANGED <<values, result, exc>>

\* Variant of Scale: v is not shifted by min_val.
ScaleNoShift(v, min_val, span) == TrueDiv(v, span)

\* Variant of Scale: the distance to the maximum is scaled.
ScaleFromMax(v, min_val, span) == TrueDiv((min_val + span) - v, span)

\* (v - min_val) / span
Scale(v, min_val, span) == TrueDiv(v - min_val, span)

\* [(v - min_val) / span for v in values]: the elements in order.
Scaled(vs, min_val, span) ==
    [i \in 1 .. Len(vs) |-> Scale(vs[i], min_val, span)]

\* return [(v - min_val) / span for v in values]
Comprehension ==
    /\ pc = "l24"
    /\ LET rs == Scaled(values, locals.min_val[1], locals.span[1])
       IN IF \A i \in 1 .. Len(rs) : rs[i].ok
          THEN /\ result' = [i \in 1 .. Len(rs) |-> rs[i].val]
               /\ pc' = "returned"
               /\ UNCHANGED exc
          ELSE /\ exc' = "ZeroDivisionError"
               /\ pc' = "raised"
               /\ UNCHANGED result
    /\ UNCHANGED <<values, locals>>

(***************************************************************************)
(* main() of the automation task                                           *)
(* fs_before records the file system as main found it; main never reads it.*)
(***************************************************************************)
DefaultOutput == "automation-output.txt"
Paths == {DefaultOutput, "out.txt", "readonly/out.txt"}
Writable == {DefaultOutput, "out.txt"}

\* The strings datetime.now(UTC).strftime(...) can produce.
Timestamps == {"2026-11-02T10:13:00.000000Z", "2026-11-02T10:13:00.000001Z"}

\* f"Ran at {timestamp}\n" as the pieces of the text.
RanAt(ts) == <<"Ran at ", ts, "\n">>

\* A file is absent, or holds a text (a sequence of pieces).
Absent == [exists |-> FALSE, text |-> <<>>]
File(text) == [exists |-> TRUE, text |-> text]
OldTexts == {<<>>, <<"old", "\n">>} \cup {RanAt(ts) : ts \in Timestamps}
Files == {Absent} \cup {File(t) : t \in OldTexts}

Argvs == {<<>>, <<"--output">>} \cup {<<"--output", p>> : p \in Paths}

InitTask ==
    /\ argv \in Argvs
    /\ fs \in [Paths -> Files]
    /\ fs_before = fs
    /\ tpc = "l19"
    /\ args_output = ""
    /\ exit_code = -1

\* parser.add_argument("--output", type=Path, default=...); parse_args()
ParseArgs ==
    /\ tpc = "l19"
    /\ IF argv = <<>>
       THEN /\ args_output' = DefaultOutput
            /\ tpc' = "l29"
            /\ UNCHANGED exit_code
       ELSE IF Len(argv) = 2
       THEN /\ args_output' = argv[2]
            /\ tpc' = "l29"
            /\ UNCHANGED exit_code
       ELSE /\ exit_code' = 2
            /\ tpc' = "exited"
            /\ UNCHANGED args_output
    /\ UNCHANGED <<argv, fs, fs_before>>

\* Variant of WriteTextTo: the file is opened for appending.
AppendTextTo(old, text) == File(old.text \o text)

\* Path.write_text: open for writing (create or truncate), write, close.
WriteTextTo(old, text) == File(text)

\* timestamp = now().strftime(...); args.output.write_text(f"Ran at ...\n")
WriteText ==
    /\ tpc = "l29"
    /\ \E ts \in Timestamps :
         IF args_output \in Writable
         THEN /\ fs' = [fs EXCEPT ![args_output] = WriteTextTo(fs[args_output], RanAt(ts))]
              /\ tpc' = "l31"
              /\ UNCHANGED exit_code
         ELSE /\ exit_code' = 1
              /\ tpc' = "exited"
              /\ UNCHANGED fs
    /\ UNCHANGED <<argv, fs_before, args_output>>

\* return 0; raise SystemExit(main())
Return ==
    /\ tpc = "l31"
    /\ exit_code' = 0
    /\ tpc' = "exited"
    /\ UNCHANGED <<argv, fs, fs_before, args_output>>

(***************************************************************************)
(* Specifications                                                          *)
(***************************************************************************)
IdleTask ==
    /\ argv = <<>>
    /\ fs = [p \in Paths |-> Absent]
    /\ fs_before = fs
    /\ tpc = "l19"
    /\ args_output = ""
    /\ exit_code = -1

IdleNormalize ==
    /\ values = <<>>
    /\ pc = "l17"
    /\ locals = [min_val |-> <<>>, max_val |-> <<>>, span |-> <<>>]
    /\ result = <<>>
    /\ exc = "None"

InitN == InitNormalize /\ IdleTask

NextN ==
    \/ CheckEmpty /\ UNCHANGED tvars
    \/ ComputeMin /\ UNCHANGED tvars
    \/ ComputeMax /\ UNCHANGED tvars
    \/ CheckConstant /\ UNCHANGED tvars
    \/ ComputeSpan /\ UNCHANGED tvars
    \/ Comprehension /\ UNCHANGED tvars

SpecNormalize == InitN /\ [][NextN]_vars

InitT == InitTask /\ IdleNormalize

NextT ==
    \/ ParseArgs /\ UNCHANGED nvars
    \/ WriteText /\ UNCHANGED nvars
    \/ Return /\ UNCHANGED nvars

SpecTask == InitT /\ [][NextT]_vars

(***************************************************************************)
(* Properties of normalize                                                 *)
(***************************************************************************)
Returned == pc = "returned"
Positions == 1 .. Len(values)

\* The least and the greatest input value, stated without the folds above.
IsLeast(m) ==
    /\ \E i \in Positions : values[i] = m
    /\ \A i \in Positions : m <= values[i]
IsGreatest(m) ==
    /\ \E i \in Positions : values[i] = m
    /\ \A i \in Positions : values[i] <= m
Least == CHOOSE m \in Numbers : IsLeast(m)
Greatest == CHOOSE m \in Numbers : IsGreatest(m)
Spread == values # <<>> /\ Greatest > Least
AllEqual == values # <<>> /\ \A i, j \in Positions : values[i] = values[j]

\* r is the rational n / d in lowest terms with a positive denominator.
IsQuotient(r, n, d) ==
    /\ r[2] > 0
    /\ r[1] * d = n * r[2]
    /\ \A k \in 2 .. r[2] : ~(r[1] % k = 0 /\ r[2] % k = 0)

\* C1: on a non-empty input with max > min, the element at every position i
\* of the result is (values[i] - min) / (max - min).
C1_Formula ==
    (Returned /\ Spread) =>
        /\ Len(result) = Len(values)
        /\ \A i \in Positions :
             IsQuotient(result[i], values[i] - Least, Greatest - Least)

\* normalize([0, 5, 10]) has returned [0.0, 0.5, 1.0].
C1_Witness ==
    Returned /\ values = <<0, 5, 10>> /\ result = <<Zero, Half, One>>

\* C2: on a non-empty input whose elements are all equal, the result has the
\* input's length and every element of it is 0.0.
C2_AllEqualZeros ==
    (Returned /\ AllEqual) =>
        /\ Len(result) = Len(values)
        /\ \A i \in 1 .. Len(result) : result[i] = Zero

\* normalize([3, 3, 3]) has returned [0.0, 0.0, 0.0].
C2_Witness ==
    Returned /\ values = <<3, 3, 3>> /\ result = <<Zero, Zero, Zero>>

\* C3: on the empty input normalize returns the empty sequence, at its first
\* step.
C3_EmptyToEmpty ==
    values = <<>> => (pc = "l17" \/ (Returned /\ result = <<>> /\ exc = "None"))

\* normalize([]) has returned.
C3_Witness == Returned /\ values = <<>> /\ result = <<>>

\* C4: on an input with max > min, every position holding the minimum maps
\* to 0.0 and every position holding the maximum maps to 1.0.
C4_EndsOfSpread ==
    (Returned /\ Spread) =>
        \A i \in Positions :
            /\ values[i] = Least => result[i] = Zero
            /\ values[i] = Greatest => result[i] = One

\* A spread input whose minimum and maximum both occur twice has returned.
C4_Witness ==
    /\ Returned /\ Spread
    /\ \E i, j \in Positions : i # j /\ values[i] = Least /\ values[j] = Least
    /\ \E i, j \in Positions : i # j /\ values[i] = Greatest /\ values[j] = Greatest

\* C5: every element of every result lies in the closed interval [0.0, 1.0].
C5_UnitInterval ==
    Returned =>
        \A i \in 1 .. Len(result) :
            /\ result[i][2] > 0
            /\ RatLeq(Zero, result[i])
            /\ RatLeq(result[i], One)

\* A spread input with a negative value has returned an element strictly
\* inside the interval.
C5_Witness ==
    /\ Returned /\ Spread
    /\ \E i \in Positions : values[i] < 0
    /\ \E i \in 1 .. Len(result) : RatLt(Zero, result[i]) /\ RatLt(result[i], One)

\* C6: the result's length is the input's length on every branch.
C6_SameLength == Returned => Len(result) = Len(values)

\* Results of length MaxLen have been returned from the spread branch.
C6_Witness == Returned /\ Spread /\ Len(values) = MaxLen /\ Len(result) = MaxLen

\* C7: normalize never raises and always runs on to its return; min and max
\* are only taken of a non-empty sequence, and the division is only reached
\* with a non-zero span.
C7_Total ==
    /\ exc = "None"
    /\ pc # "raised"
    /\ (Returned \/ ENABLED NextN)
    /\ pc \in {"l19", "l20"} => values # <<>>
    /\ pc = "l24" => locals.span[1] # 0

\* An all-equal input of two elements has returned without raising.
C7_Witness == Returned /\ AllEqual /\ Len(values) = 2 /\ exc = "None"

\* C8: on an input with max > min the result keeps the input's order: a
\* smaller value maps to a smaller element, equal values to equal elements,
\* and a value strictly between min and max maps strictly between 0.0 and 1.0.
C8_OrderPreserved ==
    (Returned /\ Spread) =>
        /\ \A i, j \in Positions :
             /\ values[i] < values[j] => RatLt(result[i], result[j])
             /\ values[i] = values[j] => result[i] = result[j]
        /\ \A i \in Positions :
             (Least < values[i] /\ values[i] < Greatest) =>
                 (RatLt(Zero, result[i]) /\ RatLt(result[i], One))

\* A spread input of three distinct values, the middle one first, has
\* returned.
C8_Witness ==
    /\ Returned /\ Len(values) = 3
    /\ values[2] < values[1] /\ values[1] < values[3]

\* C9 as stated: on every non-empty input the positions of the minimum hold
\* 0.0 and the positions of the maximum hold 1.0.
C9_AsStated ==
    (Returned /\ values # <<>>) =>
        \A i \in Positions :
            /\ values[i] = Least => result[i] = Zero
            /\ values[i] = Greatest => result[i] = One

\* C9 amended: on every non-empty input the positions of the minimum hold
\* 0.0; the positions of the maximum hold 1.0 when max > min, and 0.0 when
\* all elements are equal.
C9_Amended ==
    (Returned /\ values # <<>>) =>
        \A i \in Positions :
            /\ values[i] = Least => result[i] = Zero
            /\ values[i] = Greatest =>
                 result[i] = (IF Greatest > Least THEN One ELSE Zero)

\* normalize of a single element, at once minimum and maximum, has returned
\* [0.0].
C9_Witness == Returned /\ Len(values) = 1 /\ result = <<Zero>>

(***************************************************************************)
(* Properties of the automation task                                       *)
(***************************************************************************)
OutputGiven == Len(argv) = 2 /\ argv[2] \in Writable

\* C10: main run with --output naming a writable path terminates with exit
\* code 0, and then the file exists and its whole text is the one line
\* "Ran at <timestamp>" and a newline, whatever the file held before.
C10_WritesOneLine ==
    OutputGiven =>
        /\ tpc # "exited" => ENABLED NextT
        /\ tpc = "exited" =>
             /\ exit_code = 0
             /\ fs[argv[2]].exists
             /\ \E ts \in Timestamps : fs[argv[2]].text = RanAt(ts)

\* main has exited after writing to a file that held a text before.
C10_Witness ==
    /\ OutputGiven /\ tpc = "exited" /\ exit_code = 0
    /\ fs_before[argv[2]].exists
    /\ fs_before[argv[2]].text # <<>>
    /\ fs[argv[2]] # fs_before[argv[2]]

====
